---- MODULE Spec2Model ----
(***************************************************************************)
(* A model of mmpd (MIDI macro pad): the listen loop of the binary          *)
(* (midi-macro-pad-bin/src/main.rs), macro evaluation and the macro         *)
(* builder (midi-macro-pad-lib/src/macros.rs), the action runner            *)
(* (midi-macro-pad-lib/src/actions.rs) and the key_sequence action          *)
(* resolver (config/versions/version1/actions/key_sequence.rs).             *)
(***************************************************************************)
EXTENDS Integers, Sequences, FiniteSets, TLC

VARIABLES
    pc,         \* position of task_listen
    bus,        \* the midi bus (tx side): "idle", "open" or "closed"
    rx,         \* messages queued on the bus, oldest first
    received,   \* messages taken from rx by the loop, in the order taken
    config,     \* Option<Config>: None, or Some(ordered macro list)
    state,      \* what the State queries currently answer
    idx,        \* position of the macro iteration (1-based)
    stack,      \* frames of the action loops and adapter loops in progress
    log,        \* every evaluate, run, adapter call and stop_listening, in order
    lastEval,   \* the arguments, queries and result of the latest Macro::evaluate call
    sent,       \* every message the device put on the bus, in the order sent
    startup,    \* the startup steps taken so far, each with its outcome
    builder,    \* Option<MacroBuilder>: the staged builder
    built,      \* Option<Macro>: what build() returned
    raw_data,   \* Option<&RawConfig> handed to build_action_key_sequence
    result      \* what build_action_key_sequence returned (Pending before)

listenVars == <<pc, bus, rx, received, config, state, idx, stack, log, lastEval,
                sent, startup>>
builderVars == <<builder, built>>
keySeqVars == <<raw_data, result>>
vars == <<pc, bus, rx, received, config, state, idx, stack, log, lastEval,
          sent, startup, builder, built, raw_data, result>>

----------------------------------------------------------------------------
(* Option *)

None == [tag |-> "None"]
Some(v) == [tag |-> "Some", val |-> v]

Last(s) == s[Len(s)]
Pop(s) == SubSeq(s, 1, Len(s) - 1)

----------------------------------------------------------------------------
(* Bounds *)

MaxEvents == 2      \* messages the device sends in one run
MaxLen == 2         \* length of the lists a MacroBuilder is given or grows
MaxCount == 2       \* magnitude of the integers a configuration holds
MaxRounds == 2      \* copies of one message the loop handles under one State

----------------------------------------------------------------------------
(* Match checkers, messages, events, event matchers *)

Val(n) == [type |-> "Val", val |-> n]
Range(lo, hi) == [type |-> "Range", min |-> lo, max |-> hi]
AnyNumber == [type |-> "Any"]

NumberMatcher_matches(nm, n) ==
    CASE nm.type = "Val" -> n = nm.val
      [] nm.type = "Range" -> nm.min <= n /\ n <= nm.max
      [] nm.type = "Any" -> TRUE

Equals(t) == [type |-> "Equals", text |-> t]
AnyString == [type |-> "Any"]

StringMatcher_matches(sm, t) ==
    CASE sm.type = "Equals" -> t = sm.text
      [] sm.type = "Any" -> TRUE

ControlChangeMsg(ch, c, v) ==
    [kind |-> "ControlChange", channel |-> ch, control |-> c, value |-> v]
NoteOnMsg(ch, k, v) ==
    [kind |-> "NoteOn", channel |-> ch, key |-> k, velocity |-> v]

Midi(m) == [type |-> "Midi", msg |-> m]

ControlChange(ch, c, v) ==
    [type |-> "ControlChange", channel_match |-> ch, control_match |-> c,
     value_match |-> v]

\* An absent sub-matcher is "don't care"; a present one must accept the field.
OptNumberMatches(onm, n) ==
    onm = None \/ (onm # None /\ NumberMatcher_matches(onm.val, n))

MidiEventMatcher_matches(em, m) ==
    /\ em.type = "ControlChange"
    /\ m.kind = "ControlChange"
    /\ OptNumberMatches(em.channel_match, m.channel)
    /\ OptNumberMatches(em.control_match, m.control)
    /\ OptNumberMatches(em.value_match, m.value)

EventMatcher_matches(em, event, st) ==
    event.type = "Midi" /\ MidiEventMatcher_matches(em, event.msg)

----------------------------------------------------------------------------
(* State, scope, preconditions *)

Scope(wc, wn) == [window_class |-> wc, window_name |-> wn]

OptStringMatches(osm, t) ==
    osm = None \/ (osm # None /\ StringMatcher_matches(osm.val, t))

matches_scope(st, scope) ==
    \/ scope = None
    \/ /\ scope # None
       /\ OptStringMatches(scope.val.window_class, st.window_class)
       /\ OptStringMatches(scope.val.window_name, st.window_name)

matches(st, condition) == condition \in st.conditions

----------------------------------------------------------------------------
(* Actions *)

KeySequence(s, c) == [type |-> "KeySequence", text |-> s, count |-> c]
EnterText(t, c) == [type |-> "EnterText", text |-> t, count |-> c]
Shell(cmd, a, e) == [type |-> "Shell", command |-> cmd, args |-> a, env_vars |-> e]
Combination(as) == [type |-> "Combination", actions |-> as]

DELAY_BETWEEN_KEYS_US == 100

----------------------------------------------------------------------------
(* Macro *)

Macro(n, me, rp, ac, sc) ==
    [name |-> n, match_events |-> me, required_preconditions |-> rp,
     actions |-> ac, scope |-> sc]

\* matches_event as it would be with Iterator::all in place of Iterator::any.
matches_event_all(m, event, st) ==
    \A i \in 1..Len(m.match_events) :
        EventMatcher_matches(m.match_events[i], event, st)

matches_event(m, event, st) ==
    \E i \in 1..Len(m.match_events) :
        EventMatcher_matches(m.match_events[i], event, st)

\* evaluate as it would be with the precondition check left out.
evaluate_without_preconditions(m, event, st) ==
    IF ~matches_scope(st, m.scope)
    THEN None
    ELSE IF matches_event(m, event, st)
         THEN Some(m.actions)
         ELSE None

\* evaluate as it would be with the scope check left out.
evaluate_without_scope(m, event, st) ==
    IF /\ m.required_preconditions # None
       /\ \E i \in 1..Len(m.required_preconditions.val) :
              ~matches(st, m.required_preconditions.val[i])
    THEN None
    ELSE IF matches_event(m, event, st)
         THEN Some(m.actions)
         ELSE None

evaluate(m, event, st) ==
    IF ~matches_scope(st, m.scope)
    THEN None
    ELSE IF /\ m.required_preconditions # None
            /\ \E i \in 1..Len(m.required_preconditions.val) :
                   ~matches(st, m.required_preconditions.val[i])
         THEN None
         ELSE IF matches_event(m, event, st)
              THEN Some(m.actions)
              ELSE None

----------------------------------------------------------------------------
(* The queries one evaluate call makes, in the order it makes them: the      *)
(* scope check, the preconditions through Iterator::any, the event matchers  *)
(* through Iterator::any. Each entry names the query, the position of its    *)
(* argument in the macro's list (0 for the scope) and the answer.            *)

Query(q, i, a) == [query |-> q, index |-> i, answer |-> a]

\* Iterator::any over the items whose answers are hits: how many items it
\* asks, the first hit being the last one asked.
any_asked(hits) ==
    IF \E i \in 1..Len(hits) : hits[i]
    THEN CHOOSE i \in 1..Len(hits) : hits[i] /\ \A j \in 1..(i - 1) : ~hits[j]
    ELSE Len(hits)

precondition_queries(m, st) ==
    IF m.required_preconditions = None
    THEN <<>>
    ELSE LET conditions == m.required_preconditions.val
             fails == [i \in 1..Len(conditions) |-> ~matches(st, conditions[i])]
         IN  [i \in 1..any_asked(fails) |->
                 Query("matches", i, matches(st, conditions[i]))]

matches_event_queries(m, event, st) ==
    LET accepts == [i \in 1..Len(m.match_events) |->
                       EventMatcher_matches(m.match_events[i], event, st)]
    IN  [i \in 1..any_asked(accepts) |-> Query("event_matcher", i, accepts[i])]

\* The queries as they would be without any short-circuit: every check is
\* made and the answers are combined afterwards.
evaluate_queries_eager(m, event, st) ==
    <<Query("matches_scope", 0, matches_scope(st, m.scope))>>
    \o (IF m.required_preconditions = None
        THEN <<>>
        ELSE [i \in 1..Len(m.required_preconditions.val) |->
                 Query("matches", i, matches(st, m.required_preconditions.val[i]))])
    \o [i \in 1..Len(m.match_events) |->
            Query("event_matcher", i,
                  EventMatcher_matches(m.match_events[i], event, st))]

evaluate_queries(m, event, st) ==
    LET scopeQ == <<Query("matches_scope", 0, matches_scope(st, m.scope))>>
        preQ == precondition_queries(m, st)
    IN  IF ~matches_scope(st, m.scope)
        THEN scopeQ
        ELSE IF \E i \in 1..Len(preQ) : ~preQ[i].answer
             THEN scopeQ \o preQ
             ELSE scopeQ \o preQ \o matches_event_queries(m, event, st)

----------------------------------------------------------------------------
(* Inputs: the states the queries can report, the messages the device can   *)
(* send, the macros and the configurations get_config can load.             *)

States ==
    { [window_class |-> "foo", window_name |-> "term", conditions |-> {"p1", "p2"}],
      [window_class |-> "bar", window_name |-> "term", conditions |-> {"p1"}] }

InitialState ==
    [window_class |-> "foo", window_name |-> "term", conditions |-> {"p1", "p2"}]

Messages ==
    { ControlChangeMsg(1, 51, 127),
      ControlChangeMsg(0, 51, 0),
      ControlChangeMsg(0, 7, 40),
      NoteOnMsg(0, 51, 127) }

M_tab ==
    Macro(Some("tab"),
          <<ControlChange(None, Some(Val(7)), Some(Range(0, 63)))>>,
          None,
          <<KeySequence("ctrl+shift+t", 1)>>,
          None)

M_bye ==
    Macro(Some("bye"),
          <<ControlChange(None, Some(Val(51)), Some(Val(127))),
            ControlChange(Some(Val(0)), Some(Val(7)), None)>>,
          Some(<<"p2", "p1">>),
          <<Combination(<<Shell("firefox", None, None), EnterText("x", 1)>>)>>,
          None)

M_foo ==
    Macro(None,
          <<ControlChange(None, None, None)>>,
          None,
          <<KeySequence("a", 0), EnterText("hi", 2)>>,
          Some(Scope(Some(Equals("foo")), None)))

M_never ==
    Macro(Some("never"),
          <<>>,
          Some(<<"p1">>),
          <<KeySequence("z", 1)>>,
          Some(Scope(None, Some(Equals("term")))))

M_nest ==
    Macro(None,
          <<ControlChange(None, None, Some(Val(127)))>>,
          Some(<<>>),
          <<Combination(<<KeySequence("b", 1),
                          Combination(<<Shell("ls", Some(<<"-l">>),
                                              Some(<<<<"K", "V">>>>)),
                                        EnterText("y", 1)>>)>>),
            EnterText("q", 1)>>,
          None)

M_quiet ==
    Macro(Some("quiet"),
          <<ControlChange(Some(AnyNumber), None, None)>>,
          Some(<<"p1">>),
          <<>>,
          Some(Scope(Some(Equals("bar")), Some(Equals("term")))))

MacroUniverse == {M_tab, M_bye, M_foo, M_never, M_nest, M_quiet}

Configs ==
    { <<>>,
      <<M_foo, M_tab>>,
      <<M_never, M_quiet, M_foo>>,
      <<M_tab, M_bye, M_nest>> }

----------------------------------------------------------------------------
(* The listen loop: task_listen of main.rs *)

\* The stop matcher as it would be if it were tied to channel 0.
stop_matcher_channel_0 == ControlChange(Some(Val(0)), Some(Val(51)), Some(Val(127)))

\* The matcher of the event that stops listening.
stop_matcher == ControlChange(None, Some(Val(51)), Some(Val(127)))

\* The event being handled is the latest one received; ev is its number.
ev == Len(received)
msg == received[Len(received)]

Macros == config.val

Outcome(opt) == IF opt = None THEN "failed" ELSE "ok"

\* port_pattern is required.
after_port_pattern(port_pattern) ==
    IF port_pattern = None THEN "returned" ELSE "midi_adapter"

CheckPortPattern ==
    /\ pc = "start"
    /\ \E port_pattern \in {None, Some("pad")} :
           /\ pc' = after_port_pattern(port_pattern)
           /\ startup' = Append(startup, <<"port_pattern", Outcome(port_pattern)>>)
    /\ UNCHANGED <<builderVars, keySeqVars, sent>>
    /\ UNCHANGED <<bus, rx, received, config, state, idx, stack, log, lastEval>>

after_midi_adapter(midi_adapter) ==
    IF midi_adapter = None THEN "returned" ELSE "focus_adapter"

GetMidiAdapter ==
    /\ pc = "midi_adapter"
    /\ \E midi_adapter \in {None, Some("midi")} :
           /\ pc' = after_midi_adapter(midi_adapter)
           /\ startup' = Append(startup, <<"midi_adapter", Outcome(midi_adapter)>>)
    /\ UNCHANGED <<builderVars, keySeqVars, sent>>
    /\ UNCHANGED <<bus, rx, received, config, state, idx, stack, log, lastEval>>

after_focus_adapter(focus_adapter) ==
    IF focus_adapter = None THEN "returned" ELSE "start_listening"

GetFocusAdapter ==
    /\ pc = "focus_adapter"
    /\ \E focus_adapter \in {None, Some("focus")} :
           /\ pc' = after_focus_adapter(focus_adapter)
           /\ startup' = Append(startup, <<"focus_adapter", Outcome(focus_adapter)>>)
    /\ UNCHANGED <<builderVars, keySeqVars, sent>>
    /\ UNCHANGED <<bus, rx, received, config, state, idx, stack, log, lastEval>>

after_start_listening(handle) ==
    IF handle = None THEN "returned" ELSE "action_runner"

\* On success the adapter holds tx and feeds the bus from now on.
StartListening ==
    /\ pc = "start_listening"
    /\ \E handle \in {None, Some("handle")} :
           /\ pc' = after_start_listening(handle)
           /\ bus' = IF handle = None THEN "closed" ELSE "open"
           /\ startup' = Append(startup, <<"start_listening", Outcome(handle)>>)
    /\ UNCHANGED <<builderVars, keySeqVars, sent>>
    /\ UNCHANGED <<rx, received, config, state, idx, stack, log, lastEval>>

\* Startup as it would be with the check of the action runner left out.
after_action_runner_unchecked(action_runner) == "get_config"

after_action_runner(action_runner) ==
    IF action_runner = None THEN "returned" ELSE "get_config"

\* The early return as it would be if it stopped the started listener first.
early_return_stopping(lg) == Append(lg, [op |-> "stop_listening", ev |-> 0])

\* return; on a failed startup step: nothing else is called on the way out.
early_return(lg) == lg

NewActionRunner ==
    /\ pc = "action_runner"
    /\ \E action_runner \in {None, Some("runner")} :
           /\ pc' = after_action_runner(action_runner)
           /\ startup' = Append(startup, <<"action_runner", Outcome(action_runner)>>)
    /\ log' = IF pc' = "returned" THEN early_return(log) ELSE log
    /\ UNCHANGED <<builderVars, keySeqVars, sent>>
    /\ UNCHANGED <<bus, rx, received, config, state, idx, stack, lastEval>>

\* get_config: reading the file and finding the parser are unwrapped (a panic on
\* failure); a failed parse or a failed resolution gives None.
get_config(outcome, macros) ==
    IF outcome = "ok" THEN Some(macros) ELSE None

ConfigOutcomes == {"read_failed", "no_parser", "parse_failed", "process_failed", "ok"}

after_get_config(outcome, cfg) ==
    IF outcome \in {"read_failed", "no_parser"}
    THEN "panicked"
    ELSE IF cfg = None THEN "returned" ELSE "recv"

GetConfig ==
    /\ pc = "get_config"
    /\ \E outcome \in ConfigOutcomes, macros \in Configs :
           /\ config' = get_config(outcome, macros)
           /\ pc' = after_get_config(outcome, config')
           /\ startup' = Append(startup, <<"get_config", outcome>>)
    /\ log' = IF pc' = "returned" THEN early_return(log) ELSE log
    /\ UNCHANGED <<builderVars, keySeqVars, sent>>
    /\ UNCHANGED <<bus, rx, received, state, idx, stack, lastEval>>

----------------------------------------------------------------------------
(* The device side of the bus and the world the State queries look at *)

\* The listening adapter sends a message on tx.
Produce ==
    /\ bus = "open"
    /\ pc \in {"action_runner", "get_config", "recv", "eval", "run", "stop_check"}
    /\ Len(received) + Len(rx) < MaxEvents
    /\ \E m \in Messages : rx' = Append(rx, m) /\ sent' = Append(sent, m)
    /\ UNCHANGED <<builderVars, keySeqVars, startup>>
    /\ UNCHANGED <<pc, bus, received, config, state, idx, stack, log, lastEval>>

\* After stop_listening the adapter drops tx.
CloseBus ==
    /\ bus = "open"
    /\ \E i \in 1..Len(log) : log[i].op = "stop_listening"
    /\ bus' = "closed"
    /\ UNCHANGED <<builderVars, keySeqVars, sent, startup>>
    /\ UNCHANGED <<pc, rx, received, config, state, idx, stack, log, lastEval>>

\* The focused window or the tracked device state changes.
StateChange ==
    /\ pc \in {"recv", "eval"}
    /\ \E s \in States : s # state /\ state' = s
    /\ UNCHANGED <<builderVars, keySeqVars, sent, startup>>
    /\ UNCHANGED <<pc, bus, rx, received, config, idx, stack, log, lastEval>>

----------------------------------------------------------------------------
(* The event loop *)

\* The queue as it would be if the newest message were taken first.
recv_next_newest_first(q) == [msg |-> Last(q), rest |-> Pop(q)]

\* for msg in rx: the oldest queued message is next.
recv_next(q) == [msg |-> Head(q), rest |-> Tail(q)]

Recv ==
    /\ pc = "recv"
    /\ rx # <<>>
    /\ LET r == recv_next(rx) IN
           /\ received' = Append(received, r.msg)
           /\ rx' = r.rest
    /\ idx' = 1
    /\ pc' = "eval"
    /\ UNCHANGED <<builderVars, keySeqVars, sent, startup>>
    /\ UNCHANGED <<bus, config, state, stack, log, lastEval>>

\* rx ends once tx is dropped and the queue is drained.
LoopExit ==
    /\ pc = "recv"
    /\ rx = <<>>
    /\ bus = "closed"
    /\ pc' = "exited"
    /\ UNCHANGED <<builderVars, keySeqVars, sent, startup>>
    /\ UNCHANGED <<bus, rx, received, config, state, idx, stack, log, lastEval>>

\* What the loop does with the result of one evaluate call: a match runs the
\* macro's actions, no match moves on to the next macro.
after_evaluate(res, i) ==
    IF res # None
    THEN [pc |-> "run", idx |-> i,
          stack |-> <<[kind |-> "actions", actions |-> res.val, i |-> 1,
                       path |-> <<>>]>>]
    ELSE [pc |-> "eval", idx |-> i + 1, stack |-> <<>>]

EvalMacro ==
    /\ pc = "eval"
    /\ idx <= Len(Macros)
    /\ LET res == evaluate(Macros[idx], Midi(msg), state)
           nxt == after_evaluate(res, idx)
       IN  /\ lastEval' = [macro |-> Macros[idx], event |-> Midi(msg),
                           state |-> state, result |-> res,
                           queries |-> evaluate_queries(Macros[idx], Midi(msg),
                                                        state)]
           /\ log' = Append(log, [op |-> "evaluate", ev |-> ev, macro |-> idx,
                                   msg |-> msg, matched |-> (res # None)])
           /\ pc' = nxt.pc
           /\ idx' = nxt.idx
           /\ stack' = nxt.stack
    /\ UNCHANGED <<builderVars, keySeqVars, sent, startup>>
    /\ UNCHANGED <<bus, rx, received, config, state>>

\* Every macro was evaluated and none matched.
NoMacroMatched ==
    /\ pc = "eval"
    /\ idx > Len(Macros)
    /\ pc' = "stop_check"
    /\ UNCHANGED <<builderVars, keySeqVars, sent, startup>>
    /\ UNCHANGED <<bus, rx, received, config, state, idx, stack, log, lastEval>>

----------------------------------------------------------------------------
(* ActionRunner *)

Top == stack[Len(stack)]

\* ActionRunner::run: the frame that executes one action.
run(action, path) ==
    CASE action.type = "KeySequence" ->
             [kind |-> "run_key_sequence", text |-> action.text,
              count |-> action.count, n |-> 0, path |-> path]
      [] action.type = "EnterText" ->
             [kind |-> "run_enter_text", text |-> action.text,
              count |-> action.count, n |-> 0, path |-> path]
      [] action.type = "Shell" ->
             [kind |-> "run_shell", command |-> action.command,
              args |-> action.args, env_vars |-> action.env_vars,
              spawned |-> FALSE, path |-> path]
      [] action.type = "Combination" ->
             [kind |-> "combination", actions |-> action.actions, i |-> 1,
              path |-> path]

\* One turn of `for action in actions { run(action) }`: the next action is
\* handed to run, or the loop is over.
for_next(stk) ==
    LET f == Last(stk) IN
    IF f.i <= Len(f.actions)
    THEN Append([stk EXCEPT ![Len(stk)].i = f.i + 1],
                run(f.actions[f.i], Append(f.path, f.i)))
    ELSE Pop(stk)

RunLogEntry(f) ==
    [op |-> "run", ev |-> ev, macro |-> idx, path |-> Append(f.path, f.i),
     action |-> f.actions[f.i]]

\* The loop as it would be without the break: on to the next macro.
after_actions_without_break(i) == [pc |-> "eval", idx |-> i + 1]

\* The loop over the winning macro's actions; after the last one: break.
after_actions(i) == [pc |-> "stop_check", idx |-> i]

RunActions ==
    /\ pc = "run"
    /\ stack # <<>>
    /\ Top.kind = "actions"
    /\ stack' = for_next(stack)
    /\ IF Top.i <= Len(Top.actions)
       THEN /\ log' = Append(log, RunLogEntry(Top))
            /\ pc' = pc
            /\ idx' = idx
       ELSE /\ log' = log
            /\ pc' = after_actions(idx).pc
            /\ idx' = after_actions(idx).idx
    /\ UNCHANGED <<builderVars, keySeqVars, sent, startup>>
    /\ UNCHANGED <<bus, rx, received, config, state, lastEval>>

\* Action::Combination: the loop over the children.
RunCombination ==
    /\ pc = "run"
    /\ stack # <<>>
    /\ Top.kind = "combination"
    /\ stack' = for_next(stack)
    /\ log' = IF Top.i <= Len(Top.actions)
              THEN Append(log, RunLogEntry(Top))
              ELSE log
    /\ UNCHANGED <<builderVars, keySeqVars, sent, startup>>
    /\ UNCHANGED <<pc, bus, rx, received, config, state, idx, lastEval>>

\* The repeat loop as it would be with an inclusive upper bound.
repeat_again_inclusive(n, count) == n <= count

\* for _ in 0..count
repeat_again(n, count) == n < count

AdapterCall(name, f) ==
    [op |-> name, ev |-> ev, macro |-> idx, path |-> f.path, text |-> f.text,
     delay |-> DELAY_BETWEEN_KEYS_US]

run_key_sequence(stk) ==
    LET f == Last(stk) IN
    IF repeat_again(f.n, f.count)
    THEN [stack |-> [stk EXCEPT ![Len(stk)].n = f.n + 1],
          calls |-> <<AdapterCall("send_keysequence", f)>>]
    ELSE [stack |-> Pop(stk), calls |-> <<>>]

RunKeySequence ==
    /\ pc = "run"
    /\ stack # <<>>
    /\ Top.kind = "run_key_sequence"
    /\ LET r == run_key_sequence(stack) IN
           /\ stack' = r.stack
           /\ log' = log \o r.calls
    /\ UNCHANGED <<builderVars, keySeqVars, sent, startup>>
    /\ UNCHANGED <<pc, bus, rx, received, config, state, idx, lastEval>>

run_enter_text(stk) ==
    LET f == Last(stk) IN
    IF repeat_again(f.n, f.count)
    THEN [stack |-> [stk EXCEPT ![Len(stk)].n = f.n + 1],
          calls |-> <<AdapterCall("send_text", f)>>]
    ELSE [stack |-> Pop(stk), calls |-> <<>>]

RunEnterText ==
    /\ pc = "run"
    /\ stack # <<>>
    /\ Top.kind = "run_enter_text"
    /\ LET r == run_enter_text(stack) IN
           /\ stack' = r.stack
           /\ log' = log \o r.calls
    /\ UNCHANGED <<builderVars, keySeqVars, sent, startup>>
    /\ UNCHANGED <<pc, bus, rx, received, config, state, idx, lastEval>>

\* cmd.status(): the process is spawned, or the spawn fails.
SpawnOutcomes == {"spawn_failed", "spawned"}

\* run_shell as it would be if a failure were propagated out of the enclosing
\* loop instead of being dropped.
run_shell_return_propagating(stk, status) ==
    IF status = "success" THEN Pop(stk) ELSE Pop(Pop(stk))

\* let _ = cmd.status(): whatever the status, run_shell returns normally.
run_shell_return(stk, status) == Pop(stk)

\* cmd.status() as it would be if the process were only started
\* (cmd.spawn()): run_shell returns at once.
after_spawn_detached(stk, outcome) == Pop(stk)

\* cmd.status(): once the process is started run_shell waits for it; when it
\* cannot be started run_shell returns.
after_spawn(stk, outcome) ==
    IF outcome = "spawned"
    THEN [stk EXCEPT ![Len(stk)].spawned = TRUE]
    ELSE run_shell_return(stk, "spawn_failed")

RunShellSpawn ==
    /\ pc = "run"
    /\ stack # <<>>
    /\ Top.kind = "run_shell"
    /\ ~Top.spawned
    /\ \E outcome \in SpawnOutcomes :
           /\ log' = Append(log, [op |-> "spawn", ev |-> ev, macro |-> idx,
                                   path |-> Top.path, command |-> Top.command,
                                   args |-> Top.args, env_vars |-> Top.env_vars,
                                   outcome |-> outcome])
           /\ stack' = after_spawn(stack, outcome)
    /\ UNCHANGED <<builderVars, keySeqVars, sent, startup>>
    /\ UNCHANGED <<pc, bus, rx, received, config, state, idx, lastEval>>

\* cmd.status() waits for the process and observes its exit status.
ExitStatuses == {"success", "failure"}

RunShellWait ==
    /\ pc = "run"
    /\ stack # <<>>
    /\ Top.kind = "run_shell"
    /\ Top.spawned
    /\ \E status \in ExitStatuses :
           /\ log' = Append(log, [op |-> "exit", ev |-> ev, macro |-> idx,
                                   path |-> Top.path, status |-> status])
           /\ stack' = run_shell_return(stack, status)
    /\ UNCHANGED <<builderVars, keySeqVars, sent, startup>>
    /\ UNCHANGED <<pc, bus, rx, received, config, state, idx, lastEval>>

----------------------------------------------------------------------------
(* The stop check that ends each turn of the event loop *)

\* The end of the turn as it would be with a break after stop_listening.
after_stop_check_breaking(stop) == IF stop THEN "exited" ELSE "recv"

\* The end of the turn: stop_listening or not, on to the next message of rx.
after_stop_check(stop) == "recv"

StopCheck ==
    /\ pc = "stop_check"
    /\ log' = IF MidiEventMatcher_matches(stop_matcher, msg)
              THEN Append(log, [op |-> "stop_listening", ev |-> ev])
              ELSE log
    /\ pc' = after_stop_check(MidiEventMatcher_matches(stop_matcher, msg))
    /\ UNCHANGED <<builderVars, keySeqVars, sent, startup>>
    /\ UNCHANGED <<bus, rx, received, config, state, idx, stack, lastEval>>

----------------------------------------------------------------------------
(* The listen specification *)

NoEval == [macro |-> None, event |-> None, state |-> None, result |-> None,
           queries |-> <<>>]

IdleBuilder == builder = None /\ built = None
Pending == [tag |-> "Pending"]
IdleKeySeq == raw_data = None /\ result = Pending

ListenInit ==
    /\ pc = "start"
    /\ bus = "idle"
    /\ rx = <<>>
    /\ received = <<>>
    /\ config = None
    /\ state = InitialState
    /\ idx = 1
    /\ stack = <<>>
    /\ log = <<>>
    /\ lastEval = NoEval
    /\ sent = <<>>
    /\ startup = <<>>

Init ==
    /\ ListenInit
    /\ IdleBuilder
    /\ IdleKeySeq

Next ==
    \/ CheckPortPattern
    \/ GetMidiAdapter
    \/ GetFocusAdapter
    \/ StartListening
    \/ NewActionRunner
    \/ GetConfig
    \/ Produce
    \/ CloseBus
    \/ StateChange
    \/ Recv
    \/ LoopExit
    \/ EvalMacro
    \/ NoMacroMatched
    \/ RunActions
    \/ RunCombination
    \/ RunKeySequence
    \/ RunEnterText
    \/ RunShellSpawn
    \/ RunShellWait
    \/ StopCheck


Spec == Init /\ [][Next]_vars

\* The thread of task_listen goes on whenever it can: it takes the next
\* message, evaluates, runs, checks for the stop event, leaves the loop when
\* rx has ended. It does not decide when a spawned command exits.
LoopStep ==
    \/ Recv
    \/ LoopExit
    \/ EvalMacro
    \/ NoMacroMatched
    \/ RunActions
    \/ RunCombination
    \/ RunKeySequence
    \/ RunEnterText
    \/ RunShellSpawn
    \/ StopCheck

\* The listen loop with its scheduling: the loop's own steps are taken, and
\* stop_listening makes the adapter drop tx in the end.
SpecLive == Init /\ [][Next]_vars /\ WF_vars(LoopStep) /\ WF_vars(CloseBus)

----------------------------------------------------------------------------
(* Evaluation under an unchanging State: the device has sent one message   *)
(* MaxRounds times over, and the listen loop handles the copies one after   *)
(* the other while neither the focused window nor the conditions change.    *)

\* MaxRounds copies of one message.
Copies(m) == [i \in 1..MaxRounds |-> m]

\* task_listen has started up and waits at the head of the loop, the copies
\* of the message queued on rx.
InitEval ==
    /\ pc = "recv"
    /\ bus = "open"
    /\ \E m \in Messages : rx = Copies(m)
    /\ received = <<>>
    /\ sent = rx
    /\ \E macros \in Configs : config = Some(macros)
    /\ state \in States
    /\ idx = 1
    /\ stack = <<>>
    /\ log = <<>>
    /\ lastEval = NoEval
    /\ startup = << <<"port_pattern", "ok">>, <<"midi_adapter", "ok">>,
                    <<"focus_adapter", "ok">>, <<"start_listening", "ok">>,
                    <<"action_runner", "ok">>, <<"get_config", "ok">> >>
    /\ IdleBuilder
    /\ IdleKeySeq

\* The steps of the loop and the closing of the bus; the device sends nothing
\* more and the State stays as it is.
NextEval ==
    \/ CloseBus
    \/ Recv
    \/ LoopExit
    \/ EvalMacro
    \/ NoMacroMatched
    \/ RunActions
    \/ RunCombination
    \/ RunKeySequence
    \/ RunEnterText
    \/ RunShellSpawn
    \/ RunShellWait
    \/ StopCheck

SpecEval == InitEval /\ [][NextEval]_vars

----------------------------------------------------------------------------
(* MacroBuilder *)

EM_a == ControlChange(None, Some(Val(7)), None)
EM_b == ControlChange(Some(Val(1)), None, Some(Range(0, 63)))
EventMatchers == {EM_a, EM_b}
BuilderActions == {KeySequence("ctrl+t", 1), Shell("ls", None, None)}
Preconditions == {"p1", "p2"}
Names == {"one", "two"}
Scopes == {Scope(Some(Equals("foo")), None)}

\* Every list over S of at most MaxLen elements.
RECURSIVE SeqsUpTo(_, _)
SeqsUpTo(S, n) ==
    IF n = 0
    THEN {<<>>}
    ELSE LET shorter == SeqsUpTo(S, n - 1)
         IN  shorter \cup {Append(q, x) : q \in shorter, x \in S}

from_event_matcher(event_matcher) ==
    [name |-> None, match_events |-> <<event_matcher>>,
     required_preconditions |-> None, actions |-> <<>>, scope |-> None]

from_event_matchers(event_matchers) ==
    [name |-> None, match_events |-> event_matchers,
     required_preconditions |-> None, actions |-> <<>>, scope |-> None]

set_event_matchers(self, event_matchers) ==
    [self EXCEPT !.match_events = event_matchers]

add_event_matcher(self, event_matcher) ==
    [self EXCEPT !.match_events = Append(self.match_events, event_matcher)]

set_actions(self, actions) == [self EXCEPT !.actions = actions]

add_action(self, action) == [self EXCEPT !.actions = Append(self.actions, action)]

set_name(self, name) == [self EXCEPT !.name = Some(name)]

set_preconditions(self, preconditions) ==
    [self EXCEPT !.required_preconditions = Some(preconditions)]

\* add_precondition as it would be if the new precondition were put in front.
add_precondition_prepending(self, precondition) ==
    IF self.required_preconditions # None
    THEN [self EXCEPT !.required_preconditions =
              Some(<<precondition>> \o self.required_preconditions.val)]
    ELSE [self EXCEPT !.required_preconditions = Some(<<precondition>>)]

add_precondition(self, precondition) ==
    IF self.required_preconditions # None
    THEN [self EXCEPT !.required_preconditions =
              Some(Append(self.required_preconditions.val, precondition))]
    ELSE [self EXCEPT !.required_preconditions = Some(<<precondition>>)]

set_scope(self, scope) == [self EXCEPT !.scope = Some(scope)]

build(self) ==
    [name |-> self.name, match_events |-> self.match_events,
     required_preconditions |-> self.required_preconditions,
     actions |-> self.actions, scope |-> self.scope]

Staging == builder # None /\ built = None

FromEventMatcher ==
    /\ builder = None /\ built = None
    /\ \E em \in EventMatchers : builder' = Some(from_event_matcher(em))
    /\ UNCHANGED <<built, listenVars, keySeqVars>>

FromEventMatchers ==
    /\ builder = None /\ built = None
    /\ \E ems \in SeqsUpTo(EventMatchers, MaxLen) :
           builder' = Some(from_event_matchers(ems))
    /\ UNCHANGED <<built, listenVars, keySeqVars>>

SetEventMatchers ==
    /\ Staging
    /\ \E ems \in SeqsUpTo(EventMatchers, MaxLen) :
           builder' = Some(set_event_matchers(builder.val, ems))
    /\ UNCHANGED <<built, listenVars, keySeqVars>>

AddEventMatcher ==
    /\ Staging
    /\ Len(builder.val.match_events) < MaxLen
    /\ \E em \in EventMatchers :
           builder' = Some(add_event_matcher(builder.val, em))
    /\ UNCHANGED <<built, listenVars, keySeqVars>>

SetActions ==
    /\ Staging
    /\ \E as \in SeqsUpTo(BuilderActions, MaxLen) :
           builder' = Some(set_actions(builder.val, as))
    /\ UNCHANGED <<built, listenVars, keySeqVars>>

AddAction ==
    /\ Staging
    /\ Len(builder.val.actions) < MaxLen
    /\ \E a \in BuilderActions : builder' = Some(add_action(builder.val, a))
    /\ UNCHANGED <<built, listenVars, keySeqVars>>

SetName ==
    /\ Staging
    /\ \E n \in Names : builder' = Some(set_name(builder.val, n))
    /\ UNCHANGED <<built, listenVars, keySeqVars>>

SetPreconditions ==
    /\ Staging
    /\ \E ps \in SeqsUpTo(Preconditions, MaxLen) :
           builder' = Some(set_preconditions(builder.val, ps))
    /\ UNCHANGED <<built, listenVars, keySeqVars>>

AddPrecondition ==
    /\ Staging
    /\ \/ builder.val.required_preconditions = None
       \/ /\ builder.val.required_preconditions # None
          /\ Len(builder.val.required_preconditions.val) < MaxLen
    /\ \E p \in Preconditions :
           builder' = Some(add_precondition(builder.val, p))
    /\ UNCHANGED <<built, listenVars, keySeqVars>>

SetScope ==
    /\ Staging
    /\ \E sc \in Scopes : builder' = Some(set_scope(builder.val, sc))
    /\ UNCHANGED <<built, listenVars, keySeqVars>>

\* build consumes the builder.
Build ==
    /\ Staging
    /\ built' = Some(build(builder.val))
    /\ builder' = None
    /\ UNCHANGED <<listenVars, keySeqVars>>

InitBuilder == ListenInit /\ IdleBuilder /\ IdleKeySeq

NextBuilder ==
    \/ FromEventMatcher
    \/ FromEventMatchers
    \/ SetEventMatchers
    \/ AddEventMatcher
    \/ SetActions
    \/ AddAction
    \/ SetName
    \/ SetPreconditions
    \/ AddPrecondition
    \/ SetScope
    \/ Build

SpecBuilder == InitBuilder /\ [][NextBuilder]_vars

----------------------------------------------------------------------------
(* RawConfig and the key_sequence action resolver *)

RNull == [type |-> "Null"]
RBool(b) == [type |-> "Bool", bool |-> b]
RInteger(i) == [type |-> "Integer", int |-> i]
RFloat(f) == [type |-> "Float", float |-> f]
RString(t) == [type |-> "String", str |-> t]
RArray(items) == [type |-> "Array", items |-> items]
\* A hash is its set of <<key, value>> pairs, one pair per key.
RHash(pairs) == [type |-> "Hash", pairs |-> pairs]

HasField(hash, field) == \E p \in hash : p[1] = field
Field(hash, field) == (CHOOSE p \in hash : p[1] = field)[2]

\* AccessHelpers: the field, when it is there and holds the asked-for type.
get_string(hash, field) ==
    IF HasField(hash, field) /\ Field(hash, field).type = "String"
    THEN Some(Field(hash, field).str)
    ELSE None

get_integer(hash, field) ==
    IF HasField(hash, field) /\ Field(hash, field).type = "Integer"
    THEN Some(Field(hash, field).int)
    ELSE None

\* unwrap_or as it would be if the type's own default (0) were substituted.
unwrap_or_default(opt, default) == IF opt = None THEN 0 ELSE opt.val

unwrap_or(opt, default) == IF opt = None THEN default ELSE opt.val

SEQUENCE_FIELD == "sequence"
COUNT_FIELD == "count"

Ok(v) == [tag |-> "Ok", val |-> v]
Err(e) == [tag |-> "Err", err |-> e]
InvalidConfig(text) == [type |-> "InvalidConfig", description |-> text]

\* count as usize, reached only with 0 <= count, where an i64 keeps its value.
as_usize(count) == count

\* The message formatted with the count found.
CountMessage(count) ==
    <<"Action key_sequence: count should be 0 or more, found", count>>

\* The count check that ends the Hash branch, as it would be if a negative
\* count were clamped to 0.
check_count_clamping(sequence, count) ==
    IF count < 0
    THEN Ok(KeySequence(sequence, 0))
    ELSE Ok(KeySequence(sequence, as_usize(count)))

check_count(sequence, count) ==
    IF count < 0
    THEN Err(InvalidConfig(CountMessage(count)))
    ELSE Ok(KeySequence(sequence, as_usize(count)))

\* The Hash branch as it would be if a missing sequence defaulted to "".
build_from_hash_defaulting(hash) ==
    check_count(unwrap_or(get_string(hash, SEQUENCE_FIELD), ""),
                unwrap_or(get_integer(hash, COUNT_FIELD), 1))

\* The Hash branch as it would be if a count that is there but is no integer
\* were refused.
build_from_hash_strict_count(hash) ==
    LET sequence == get_string(hash, SEQUENCE_FIELD) IN
    IF sequence = None
    THEN Err(InvalidConfig(
             <<"Action key_sequence: data field doesn't contain a 'sequence' field">>))
    ELSE IF HasField(hash, COUNT_FIELD) /\ get_integer(hash, COUNT_FIELD) = None
         THEN Err(InvalidConfig(<<"Action key_sequence: count should be an integer">>))
         ELSE check_count(sequence.val, unwrap_or(get_integer(hash, COUNT_FIELD), 1))

build_from_hash(hash) ==
    LET sequence == get_string(hash, SEQUENCE_FIELD) IN
    IF sequence = None
    THEN Err(InvalidConfig(
             <<"Action key_sequence: data field doesn't contain a 'sequence' field">>))
    ELSE check_count(sequence.val, unwrap_or(get_integer(hash, COUNT_FIELD), 1))

build_action_key_sequence(raw) ==
    IF raw = None
    THEN Err(InvalidConfig(<<"Action key_sequence: missing data field">>))
    ELSE CASE raw.val.type = "String" -> Ok(KeySequence(raw.val.str, 1))
           [] raw.val.type = "Hash" -> build_from_hash(raw.val.pairs)
           [] OTHER ->
                Err(InvalidConfig(
                    <<"Action key_sequence: data field should be either string or hash, but was neither">>))

\* The values a field of the configuration document can hold.
Scalars ==
    { RNull, RBool(TRUE), RFloat("1.5"), RString("ctrl+shift+t"), RString("2"),
      RArray(<<RString("a")>>), RHash({}) }
    \cup {RInteger(i) : i \in -MaxCount..MaxCount}

Hashes ==
    { RHash(sq \cup ct \cup ot) :
        sq \in {{}} \cup {{<<SEQUENCE_FIELD, v>>} : v \in Scalars},
        ct \in {{}} \cup {{<<COUNT_FIELD, v>>} : v \in Scalars},
        ot \in {{}, {<<"delay", RInteger(1)>>}} }

RawInputs == {None} \cup {Some(v) : v \in Scalars \cup Hashes}

BuildActionKeySequence ==
    /\ result = Pending
    /\ result' = build_action_key_sequence(raw_data)
    /\ UNCHANGED <<raw_data, listenVars, builderVars>>

InitKeySeq ==
    /\ ListenInit
    /\ IdleBuilder
    /\ raw_data \in RawInputs
    /\ result = Pending

NextKeySeq == BuildActionKeySequence

SpecKeySeq == InitKeySeq /\ [][NextKeySeq]_vars

----------------------------------------------------------------------------
(* Reading the log *)

LoopPcs == {"recv", "eval", "run", "stop_check", "exited"}

\* Positions of the log that belong to event k and have one of the ops.
Positions(k, ops) == {i \in 1..Len(log) : log[i].ev = k /\ log[i].op \in ops}

ActionOps == {"run", "send_keysequence", "send_text", "spawn", "exit"}
KeyboardOps == {"send_keysequence", "send_text"}

\* The macro whose evaluate returned an action list for event k; 0 when none did.
Winner(k) ==
    IF \E i \in Positions(k, {"evaluate"}) : log[i].matched
    THEN log[CHOOSE i \in Positions(k, {"evaluate"}) : log[i].matched].macro
    ELSE 0

\* Event k has been handled to the end of its turn of the loop.
Handled(k) == k < ev \/ (k = ev /\ pc \in {"recv", "exited"})

\* Event k is past macro evaluation and the actions of its winner.
Dispatched(k) == k < ev \/ (k = ev /\ pc \in {"stop_check", "recv", "exited"})

\* The elements of the log at the positions of P, in log order.
Pick(P) == SelectSeq([i \in 1..Len(log) |-> IF i \in P THEN <<log[i]>> ELSE <<>>],
                     LAMBDA x : x # <<>>)

\* The actions handed to run directly by the loop for event k, in order.
TopLevelRuns(k) ==
    LET P == {i \in Positions(k, {"run"}) : Len(log[i].path) = 1}
        picked == Pick(P)
    IN  [j \in 1..Len(picked) |-> picked[j][1].action]

----------------------------------------------------------------------------
(* C1: for every event the loop evaluates the macros in list order from the  *)
(* first one, stops at the first whose evaluate returns an action list and   *)
(* runs the actions of that macro only; when no macro's evaluate returns an  *)
(* action list every macro was evaluated, nothing is run and the loop goes   *)
(* on.                                                                       *)
C1_FirstMatchWins ==
    \A k \in 1..Len(received) :
        LET E == Positions(k, {"evaluate"})
            A == Positions(k, ActionOps)
            w == Winner(k)
        IN  /\ \A i \in E : log[i].macro = Cardinality({j \in E : j <= i})
            /\ \A i \in E : log[i].matched => \A j \in E : j <= i
            /\ \A i \in E : log[i].macro \in 1..Len(Macros)
            /\ \A a \in A : /\ w # 0
                            /\ log[a].macro = w
                            /\ \A i \in E : i < a
            /\ (Dispatched(k) /\ w # 0) => TopLevelRuns(k) = Macros[w].actions
            /\ (Dispatched(k) /\ w = 0) =>
                   /\ Cardinality(E) = Len(Macros)
                   /\ A = {}
                   /\ pc \in LoopPcs

\* An event that two macros of the list match has been dispatched: the first
\* of them ran its actions.
C1_Witness ==
    /\ pc = "stop_check"
    /\ Winner(ev) # 0
    /\ TopLevelRuns(ev) # <<>>
    /\ \E j \in 1..Len(Macros) :
           /\ j > Winner(ev)
           /\ evaluate(Macros[j], Midi(msg), state) # None

----------------------------------------------------------------------------
(* C2: evaluate returns the macro's own action list exactly when the scope   *)
(* matches, every required precondition (if any) matches and at least one    *)
(* event matcher matches the event; otherwise it returns no match.           *)
C2_EvaluateIff ==
    lastEval # NoEval =>
        LET m == lastEval.macro
            st == lastEval.state
            scopeOk == matches_scope(st, m.scope)
            preconditionsOk ==
                \/ m.required_preconditions = None
                \/ /\ m.required_preconditions # None
                   /\ \A i \in 1..Len(m.required_preconditions.val) :
                          matches(st, m.required_preconditions.val[i])
            someMatcher ==
                \E i \in 1..Len(m.match_events) :
                    EventMatcher_matches(m.match_events[i], lastEval.event, st)
        IN  IF scopeOk /\ preconditionsOk /\ someMatcher
            THEN lastEval.result = Some(m.actions)
            ELSE lastEval.result = None

\* evaluate returned the actions of a macro with a precondition and two event
\* matchers, only one of which matches the event.
C2_Witness ==
    /\ lastEval # NoEval
    /\ lastEval.result # None
    /\ lastEval.macro.required_preconditions # None
    /\ Len(lastEval.macro.required_preconditions.val) > 0
    /\ Len(lastEval.macro.match_events) = 2
    /\ \E i \in 1..2 :
           ~EventMatcher_matches(lastEval.macro.match_events[i], lastEval.event,
                                 lastEval.state)

----------------------------------------------------------------------------
(* C3: every Macro that build() returns has at least one event matcher.      *)
C3_BuiltMatchEventsNonEmpty ==
    built # None => Len(built.val.match_events) > 0

----------------------------------------------------------------------------
(* C4: for a Hash whose count field is a negative integer the resolver       *)
(* returns InvalidConfig and never an Action.                                *)
HashData == raw_data # None /\ raw_data.val.type = "Hash"

NegativeCount ==
    /\ HashData
    /\ \E p \in raw_data.val.pairs :
           p[1] = "count" /\ p[2].type = "Integer" /\ p[2].int < 0

IsInvalidConfig(r) == r.tag = "Err" /\ r.err.type = "InvalidConfig"

C4_NegativeCountIsInvalid ==
    (result # Pending /\ NegativeCount) => IsInvalidConfig(result)

\* A Hash with a string sequence and a negative count was refused because of
\* the count.
C4_Witness ==
    /\ result # Pending
    /\ NegativeCount
    /\ \E p \in raw_data.val.pairs : p[1] = "sequence" /\ p[2].type = "String"
    /\ result = Err(InvalidConfig(CountMessage(-2)))

----------------------------------------------------------------------------
(* C5: the resolver returns InvalidConfig and never an Action when raw_data  *)
(* is None, is neither a String nor a Hash, or is a Hash with no 'sequence'  *)
(* field that holds a String.                                                *)
MissingOrMisShaped ==
    \/ raw_data = None
    \/ /\ raw_data # None
       /\ raw_data.val.type \notin {"String", "Hash"}
    \/ /\ HashData
       /\ ~\E p \in raw_data.val.pairs :
              p[1] = "sequence" /\ p[2].type = "String"

C5_MissingDataIsInvalid ==
    (result # Pending /\ MissingOrMisShaped) => IsInvalidConfig(result)

\* A Hash whose sequence is an integer, with a valid count, was refused.
C5_Witness ==
    /\ result # Pending
    /\ HashData
    /\ <<"sequence", RInteger(1)>> \in raw_data.val.pairs
    /\ <<"count", RInteger(2)>> \in raw_data.val.pairs
    /\ IsInvalidConfig(result)

----------------------------------------------------------------------------
(* What running a list of actions must call, in order: each action handed to *)
(* run, a KeySequence or EnterText then calling the keyboard count times, a  *)
(* Shell spawning once, a Combination going through its children.            *)

RECURSIVE ExpandAction(_, _)
RECURSIVE ExpandList(_, _, _)

ExpandAction(a, p) ==
    <<[op |-> "run", path |-> p]>> \o
    CASE a.type = "KeySequence" ->
             [j \in 1..a.count |-> [op |-> "send_keysequence", path |-> p]]
      [] a.type = "EnterText" ->
             [j \in 1..a.count |-> [op |-> "send_text", path |-> p]]
      [] a.type = "Shell" -> <<[op |-> "spawn", path |-> p]>>
      [] a.type = "Combination" -> ExpandList(a.actions, p, 1)

ExpandList(actions, p, i) ==
    IF i > Len(actions)
    THEN <<>>
    ELSE ExpandAction(actions[i], Append(p, i)) \o ExpandList(actions, p, i + 1)

\* The action list event k selected: the winner's, or none.
Selected(k) == IF Winner(k) = 0 THEN <<>> ELSE Macros[Winner(k)].actions

\* What was called for event k, in order (the exit of a process left aside).
Trace(k) ==
    LET picked == Pick(Positions(k, ActionOps \ {"exit"}))
    IN  [j \in 1..Len(picked) |-> [op |-> picked[j][1].op, path |-> picked[j][1].path]]

IsPrefix(a, b) == Len(a) <= Len(b) /\ a = SubSeq(b, 1, Len(a))

----------------------------------------------------------------------------
(* C6: run executes every child of a Combination exactly once and strictly   *)
(* in listed order, nested Combinations included, and a child Shell that     *)
(* fails to spawn or exits with failure does not keep a later child from     *)
(* being executed.                                                           *)
Under(p, q) == Len(q) > Len(p) /\ SubSeq(q, 1, Len(p)) = p

C6_CombinationRunsEachChildInOrder ==
    \A i \in 1..Len(log) :
        (log[i].op = "run" /\ log[i].action.type = "Combination") =>
            LET k == log[i].ev
                p == log[i].path
                children == log[i].action.actions
                below == {j \in Positions(k, ActionOps) : Under(p, log[j].path)}
                childRuns == {j \in below : log[j].op = "run"
                                              /\ Len(log[j].path) = Len(p) + 1}
                childOf(j) == log[j].path[Len(p) + 1]
                inOrder == Pick(below)
            IN  /\ \A j \in below : j > i
                /\ \A n \in 1..(Len(inOrder) - 1) :
                       inOrder[n][1].path[Len(p) + 1]
                           <= inOrder[n + 1][1].path[Len(p) + 1]
                /\ \A j \in childRuns : /\ childOf(j) \in 1..Len(children)
                                        /\ log[j].action = children[childOf(j)]
                /\ \A x \in childRuns, y \in childRuns :
                       childOf(x) = childOf(y) => x = y
                /\ \A j \in childRuns : \A n \in 1..childOf(j) :
                       \E x \in childRuns : childOf(x) = n
                /\ Dispatched(k) => Cardinality(childRuns) = Len(children)

\* A Shell child of a Combination failed (no spawn, or a failure status) and
\* the child listed after it was executed all the same.
C6_Witness ==
    \E i \in 1..Len(log), f \in 1..Len(log), c \in 1..Len(log) :
        /\ log[i].op = "run" /\ log[i].action.type = "Combination"
        /\ \/ log[f].op = "spawn" /\ log[f].outcome = "spawn_failed"
           \/ log[f].op = "exit" /\ log[f].status = "failure"
        /\ log[f].ev = log[i].ev
        /\ Len(log[f].path) = Len(log[i].path) + 1
        /\ Under(log[i].path, log[f].path)
        /\ log[c].op = "send_text"
        /\ log[c].ev = log[i].ev
        /\ Under(log[i].path, log[c].path)
        /\ f < c

----------------------------------------------------------------------------
(* C7: events are handled one at a time in arrival order: everything event k *)
(* calls comes before anything of event k+1, and what is called is, event by *)
(* event in arrival order, exactly what the winning action list calls.       *)
C7_EventsInArrivalOrder ==
    /\ sent = received \o rx
    /\ \A i \in 1..Len(log) :
           log[i].op = "evaluate" => log[i].msg = sent[log[i].ev]
    /\ \A i \in 1..(Len(log) - 1) : log[i].ev <= log[i + 1].ev
    /\ \A k \in 1..Len(received) :
           LET called == Trace(k)
               listed == ExpandList(Selected(k), <<>>, 1)
           IN  /\ IsPrefix(called, listed)
               /\ Dispatched(k) => Len(called) = Len(listed)
    /\ pc \in {"recv", "eval", "stop_check", "exited"} => stack = <<>>

\* Two different events were handled, each one running the actions of a macro.
C7_Witness ==
    /\ ev = 2
    /\ pc = "recv"
    /\ sent[1] # sent[2]
    /\ Winner(1) # 0 /\ Winner(2) # 0
    /\ Trace(1) # <<>> /\ Trace(2) # <<>>

----------------------------------------------------------------------------
(* C8: stop_listening is invoked for an event exactly when the event is a    *)
(* control change with control 51 and value 127 on any channel, whether or   *)
(* not a macro matched it, and only after the evaluation of the macros and   *)
(* every action of the winning macro are over for that event.                *)
IsStopEvent(m) == m.kind = "ControlChange" /\ m.control = 51 /\ m.value = 127

C8_StopAfterDispatch ==
    /\ \A i \in 1..Len(log) :
           log[i].op = "stop_listening" =>
               LET k == log[i].ev IN
               /\ IsStopEvent(received[k])
               /\ \A j \in Positions(k, ActionOps \cup {"evaluate"}) : j < i
               /\ \A j \in Positions(k, {"stop_listening"}) : j = i
               /\ Trace(k) = ExpandList(Selected(k), <<>>, 1)
               /\ Winner(k) = 0 =>
                      Cardinality(Positions(k, {"evaluate"})) = Len(Macros)
    /\ \A k \in 1..Len(received) :
           (Handled(k) /\ IsStopEvent(received[k])) =>
               Positions(k, {"stop_listening"}) # {}
    /\ pc \in {"eval", "run", "stop_check"} => Positions(ev, {"stop_listening"}) = {}

\* stop_listening was invoked once after the actions of a winning macro and
\* once for an event that no macro matched.
C8_Witness ==
    \E i \in 1..Len(log), j \in 1..Len(log) :
        /\ log[i].op = "stop_listening" /\ log[j].op = "stop_listening"
        /\ Winner(log[i].ev) # 0
        /\ Trace(log[i].ev) # <<>>
        /\ Winner(log[j].ev) = 0

----------------------------------------------------------------------------
(* C9: no event is received or evaluated and no action is run unless every   *)
(* startup step succeeded; when the MIDI adapter, the focus adapter, the     *)
(* listening handle, the action runner or the parse or resolution of the     *)
(* configuration fails, task_listen returns with no configuration loaded.    *)
StartupSucceeded ==
    startup = << <<"port_pattern", "ok">>, <<"midi_adapter", "ok">>,
                 <<"focus_adapter", "ok">>, <<"start_listening", "ok">>,
                 <<"action_runner", "ok">>, <<"get_config", "ok">> >>

StartupFailures ==
    { <<"midi_adapter", "failed">>, <<"focus_adapter", "failed">>,
      <<"start_listening", "failed">>, <<"action_runner", "failed">>,
      <<"get_config", "parse_failed">>, <<"get_config", "process_failed">> }

StartupFailed == \E i \in 1..Len(startup) : startup[i] \in StartupFailures

C9_NoEventUnlessStartupSucceeded ==
    /\ (pc \in LoopPcs \/ log # <<>> \/ received # <<>>) => StartupSucceeded
    /\ config # None => StartupSucceeded
    /\ StartupFailed =>
           /\ pc = "returned"
           /\ config = None
           /\ log = <<>>
           /\ received = <<>>

\* The resolution of the configuration failed while a message was already
\* queued: task_listen returned and the message was never received.
C9_Witness ==
    /\ pc = "returned"
    /\ Last(startup) = <<"get_config", "process_failed">>
    /\ rx # <<>>
    /\ received = <<>>
    /\ log = <<>>

----------------------------------------------------------------------------
(* C10: a KeySequence or EnterText with repeat count n calls its keyboard    *)
(* operation exactly n times, each time with the same text and the fixed     *)
(* delay; with count 0 it is never called.                                   *)
InProgress(k, p) ==
    /\ k = ev
    /\ pc = "run"
    /\ \E f \in 1..Len(stack) : stack[f].path = p

C10_RepeatCount ==
    /\ \A i \in 1..Len(log) :
           (log[i].op = "run" /\ log[i].action.type \in {"KeySequence", "EnterText"}) =>
               LET k == log[i].ev
                   p == log[i].path
                   a == log[i].action
                   calls == {j \in Positions(k, KeyboardOps) : log[j].path = p}
               IN  /\ \A j \in calls :
                          /\ j > i
                          /\ log[j].op = IF a.type = "KeySequence"
                                         THEN "send_keysequence" ELSE "send_text"
                          /\ log[j].text = a.text
                          /\ log[j].delay = DELAY_BETWEEN_KEYS_US
                   /\ Cardinality(calls) <= a.count
                   /\ ~InProgress(k, p) => Cardinality(calls) = a.count
    /\ \A j \in 1..Len(log) :
           log[j].op \in KeyboardOps =>
               \E i \in 1..Len(log) :
                   /\ log[i].op = "run"
                   /\ log[i].ev = log[j].ev
                   /\ log[i].path = log[j].path
                   /\ log[i].action.type \in {"KeySequence", "EnterText"}

\* A KeySequence with count 0 was run without any keyboard call and an
\* EnterText with count 2 with two.
C10_Witness ==
    /\ pc = "stop_check"
    /\ \E i \in Positions(ev, {"run"}) :
           /\ log[i].action.type = "KeySequence"
           /\ log[i].action.count = 0
           /\ {j \in Positions(ev, KeyboardOps) : log[j].path = log[i].path} = {}
    /\ \E i \in Positions(ev, {"run"}) :
           /\ log[i].action.type = "EnterText"
           /\ log[i].action.count = 2
           /\ Cardinality({j \in Positions(ev, KeyboardOps) :
                               log[j].path = log[i].path}) = 2

----------------------------------------------------------------------------
(* The shape of a Hash handed to the resolver *)

StringSequence ==
    /\ HashData
    /\ \E p \in raw_data.val.pairs : p[1] = "sequence" /\ p[2].type = "String"

\* The string the 'sequence' field holds.
SequenceOf ==
    (CHOOSE p \in raw_data.val.pairs : p[1] = "sequence" /\ p[2].type = "String")[2].str

CountPresent == HashData /\ \E p \in raw_data.val.pairs : p[1] = "count"

CountValue == (CHOOSE p \in raw_data.val.pairs : p[1] = "count")[2]

----------------------------------------------------------------------------
(* C11: the resolver substitutes the repeat count 1 whenever count is        *)
(* absent: a String gives KeySequence(sequence, 1), a Hash with a string     *)
(* 'sequence' and no 'count' field gives KeySequence(sequence, 1); a Hash    *)
(* with an integer count c >= 0 gives KeySequence(sequence, c), c unchanged. *)
C11_DefaultCountIsOne ==
    result # Pending =>
        /\ (raw_data # None /\ raw_data.val.type = "String") =>
               result = Ok(KeySequence(raw_data.val.str, 1))
        /\ (StringSequence /\ ~CountPresent) =>
               result = Ok(KeySequence(SequenceOf, 1))
        /\ (StringSequence /\ CountPresent /\ CountValue.type = "Integer"
               /\ CountValue.int >= 0) =>
               result = Ok(KeySequence(SequenceOf, CountValue.int))

\* A Hash with a string sequence, another field and no count was resolved to
\* a KeySequence repeated once.
C11_Witness ==
    /\ result # Pending
    /\ StringSequence
    /\ ~CountPresent
    /\ <<"delay", RInteger(1)>> \in raw_data.val.pairs
    /\ result = Ok(KeySequence("ctrl+shift+t", 1))

----------------------------------------------------------------------------
(* C12: for a Hash with a string 'sequence' and a 'count' field that is      *)
(* there but holds no integer (a string, float, list, map, ...) the resolver *)
(* does not fail: it returns KeySequence(sequence, 1).                       *)
C12_MisTypedCountIsDefault ==
    (result # Pending /\ StringSequence /\ CountPresent
       /\ CountValue.type # "Integer") =>
        result = Ok(KeySequence(SequenceOf, 1))

\* A Hash whose count is the string "2" was resolved to a KeySequence
\* repeated once.
C12_Witness ==
    /\ result # Pending
    /\ StringSequence
    /\ <<"count", RString("2")>> \in raw_data.val.pairs
    /\ result = Ok(KeySequence(SequenceOf, 1))

----------------------------------------------------------------------------
(* What the latest evaluate call was given *)

PreconditionsHold(m, st) ==
    \/ m.required_preconditions = None
    \/ /\ m.required_preconditions # None
       /\ \A i \in 1..Len(m.required_preconditions.val) :
              matches(st, m.required_preconditions.val[i])

SomeMatcherMatches(m, event, st) ==
    \E i \in 1..Len(m.match_events) :
        EventMatcher_matches(m.match_events[i], event, st)

ScopedToClassFoo(m) ==
    /\ m.scope # None
    /\ m.scope.val.window_class = Some(Equals("foo"))

----------------------------------------------------------------------------
(* C14: a macro without a scope is never rejected by the scope check,        *)
(* whatever window is focused: its preconditions and event matchers alone    *)
(* decide; a macro scoped to window class "foo" returns its actions only in  *)
(* states whose focused window has class "foo", whatever the event and the   *)
(* preconditions.                                                            *)
C14_ScopeGatesEvaluate ==
    lastEval # NoEval =>
        LET m == lastEval.macro
            st == lastEval.state
        IN  /\ m.scope = None =>
                   /\ matches_scope(st, m.scope)
                   /\ (PreconditionsHold(m, st)
                        /\ SomeMatcherMatches(m, lastEval.event, st)) =>
                          lastEval.result = Some(m.actions)
            /\ (ScopedToClassFoo(m) /\ lastEval.result # None) =>
                   st.window_class = "foo"
            /\ (ScopedToClassFoo(m) /\ st.window_class # "foo") =>
                   lastEval.result = None

\* The macro scoped to class "foo" was evaluated while the focused window had
\* another class: no actions, although its preconditions held and one of its
\* matchers matched the event.
C14_Witness ==
    /\ lastEval # NoEval
    /\ ScopedToClassFoo(lastEval.macro)
    /\ lastEval.state.window_class = "bar"
    /\ PreconditionsHold(lastEval.macro, lastEval.state)
    /\ SomeMatcherMatches(lastEval.macro, lastEval.event, lastEval.state)
    /\ lastEval.result = None

----------------------------------------------------------------------------
(* C15: evaluate checks the scope, then the preconditions, then the event    *)
(* matchers, and short-circuits: a failed scope check is the only query; a   *)
(* failing precondition is the last query, so no later precondition and no   *)
(* event matcher is asked; event matchers are asked in list order and none   *)
(* after the first that matches.                                             *)
QueryRank(q) ==
    CASE q.query = "matches_scope" -> 0
      [] q.query = "matches" -> 1
      [] q.query = "event_matcher" -> 2

C15_ChecksInOrderShortCircuit ==
    lastEval # NoEval =>
        LET m == lastEval.macro
            st == lastEval.state
            q == lastEval.queries
            asked(kind) == {n \in 1..Len(q) : q[n].query = kind}
        IN  /\ Len(q) >= 1
            /\ asked("matches_scope") = {1}
            /\ q[1].answer = matches_scope(st, m.scope)
            /\ \A n \in 1..(Len(q) - 1) :
                   /\ QueryRank(q[n]) <= QueryRank(q[n + 1])
                   /\ QueryRank(q[n]) = QueryRank(q[n + 1]) =>
                          q[n + 1].index = q[n].index + 1
                   /\ QueryRank(q[n]) < QueryRank(q[n + 1]) => q[n + 1].index = 1
            /\ \A n \in asked("matches") :
                   /\ m.required_preconditions # None
                   /\ q[n].index \in 1..Len(m.required_preconditions.val)
                   /\ q[n].answer =
                          matches(st, m.required_preconditions.val[q[n].index])
                   /\ ~q[n].answer => n = Len(q)
            /\ \A n \in asked("event_matcher") :
                   /\ q[n].index \in 1..Len(m.match_events)
                   /\ q[n].answer =
                          EventMatcher_matches(m.match_events[q[n].index],
                                               lastEval.event, st)
                   /\ q[n].answer => n = Len(q)
            /\ ~matches_scope(st, m.scope) => Len(q) = 1
            /\ ~PreconditionsHold(m, st) => asked("event_matcher") = {}
            /\ (matches_scope(st, m.scope) /\ PreconditionsHold(m, st)) =>
                   /\ m.required_preconditions # None =>
                          Cardinality(asked("matches")) =
                              Len(m.required_preconditions.val)
                   /\ (lastEval.result = None) =>
                          Cardinality(asked("event_matcher")) = Len(m.match_events)
            /\ (lastEval.result # None) <=>
                   (q[Len(q)].query = "event_matcher" /\ q[Len(q)].answer)

\* The first of two preconditions failed under a matching scope: it was the
\* last query, although the second precondition holds and an event matcher
\* matches the event.
C15_Witness ==
    /\ lastEval # NoEval
    /\ lastEval.macro.required_preconditions # None
    /\ Len(lastEval.macro.required_preconditions.val) = 2
    /\ matches(lastEval.state, lastEval.macro.required_preconditions.val[2])
    /\ SomeMatcherMatches(lastEval.macro, lastEval.event, lastEval.state)
    /\ lastEval.queries = <<Query("matches_scope", 0, TRUE),
                            Query("matches", 1, FALSE)>>

----------------------------------------------------------------------------
(* C16: a Shell action is run synchronously: once the process is spawned     *)
(* nothing else is called, evaluated or received until its exit status has   *)
(* been observed, so no later action of the macro or Combination and no      *)
(* later event is processed while the command is running; a failed spawn has *)
(* no exit to wait for.                                                      *)
Spawned(i) == log[i].op = "spawn" /\ log[i].outcome = "spawned"

\* The process started at position i of the log is the one run_shell waits for.
WaitingFor(i) ==
    /\ pc = "run"
    /\ ev = log[i].ev
    /\ stack # <<>>
    /\ Top.kind = "run_shell"
    /\ Top.spawned
    /\ Top.path = log[i].path

C16_ShellIsSynchronous ==
    /\ \A i \in 1..Len(log) :
           Spawned(i) =>
               IF i = Len(log)
               THEN WaitingFor(i)
               ELSE /\ log[i + 1].op = "exit"
                    /\ log[i + 1].ev = log[i].ev
                    /\ log[i + 1].path = log[i].path
    /\ \A i \in 1..Len(log) :
           log[i].op = "exit" =>
               /\ i > 1
               /\ Spawned(i - 1)
    /\ (stack # <<>> /\ Top.kind = "run_shell" /\ Top.spawned) =>
           (log # <<>> /\ Spawned(Len(log)) /\ WaitingFor(Len(log)))

\* A command spawned as the first child of a Combination is running while
\* its sibling is still to be run and a later event waits in the queue.
C16_Witness ==
    /\ log # <<>>
    /\ Spawned(Len(log))
    /\ WaitingFor(Len(log))
    /\ rx # <<>>
    /\ Len(stack) >= 2
    /\ stack[Len(stack) - 1].kind = "combination"
    /\ stack[Len(stack) - 1].i <= Len(stack[Len(stack) - 1].actions)

----------------------------------------------------------------------------
(* C17: build() yields a Macro whose fields are the builder's staged fields  *)
(* unchanged. Each operation changes its own field only: a set_* (or a       *)
(* constructor) makes the field the value given, an add_* puts its argument  *)
(* at the end of the list and keeps what was there in order, add_precondition *)
(* on absent preconditions gives the one-element list, and name and scope    *)
(* are the last value set, absent before any set.                            *)
FieldNames == {"name", "match_events", "required_preconditions", "actions", "scope"}

\* b2 differs from b in the fields of F at most.
SameExcept(b, b2, F) ==
    /\ DOMAIN b2 = FieldNames
    /\ "name" \notin F => b2.name = b.name
    /\ "match_events" \notin F => b2.match_events = b.match_events
    /\ "required_preconditions" \notin F =>
           b2.required_preconditions = b.required_preconditions
    /\ "actions" \notin F => b2.actions = b.actions
    /\ "scope" \notin F => b2.scope = b.scope

Fresh ==
    [name |-> None, match_events |-> <<>>, required_preconditions |-> None,
     actions |-> <<>>, scope |-> None]

ConstructorsStageOnlyMatchers ==
    /\ \A em \in EventMatchers :
           /\ from_event_matcher(em).match_events = <<em>>
           /\ SameExcept(Fresh, from_event_matcher(em), {"match_events"})
    /\ \A ems \in SeqsUpTo(EventMatchers, MaxLen) :
           /\ from_event_matchers(ems).match_events = ems
           /\ SameExcept(Fresh, from_event_matchers(ems), {"match_events"})

OperationsChangeOwnField ==
    Staging =>
        LET b == builder.val IN
        /\ \A ems \in SeqsUpTo(EventMatchers, MaxLen) :
               /\ set_event_matchers(b, ems).match_events = ems
               /\ SameExcept(b, set_event_matchers(b, ems), {"match_events"})
        /\ \A em \in EventMatchers :
               /\ add_event_matcher(b, em).match_events = b.match_events \o <<em>>
               /\ SameExcept(b, add_event_matcher(b, em), {"match_events"})
        /\ \A as \in SeqsUpTo(BuilderActions, MaxLen) :
               /\ set_actions(b, as).actions = as
               /\ SameExcept(b, set_actions(b, as), {"actions"})
        /\ \A a \in BuilderActions :
               /\ add_action(b, a).actions = b.actions \o <<a>>
               /\ SameExcept(b, add_action(b, a), {"actions"})
        /\ \A n \in Names :
               /\ set_name(b, n).name = Some(n)
               /\ SameExcept(b, set_name(b, n), {"name"})
        /\ \A ps \in SeqsUpTo(Preconditions, MaxLen) :
               /\ set_preconditions(b, ps).required_preconditions = Some(ps)
               /\ SameExcept(b, set_preconditions(b, ps), {"required_preconditions"})
        /\ \A p \in Preconditions :
               /\ add_precondition(b, p).required_preconditions =
                      IF b.required_preconditions = None
                      THEN Some(<<p>>)
                      ELSE Some(b.required_preconditions.val \o <<p>>)
               /\ SameExcept(b, add_precondition(b, p), {"required_preconditions"})
        /\ \A sc \in Scopes :
               /\ set_scope(b, sc).scope = Some(sc)
               /\ SameExcept(b, set_scope(b, sc), {"scope"})

\* A step of build: the Macro holds what was staged and the builder is gone.
BuildKeepsStagedFields ==
    (Staging /\ built' # None) =>
        /\ SameExcept(builder.val, built'.val, {})
        /\ builder' = None

C17_BuildYieldsStagedFields ==
    /\ [](ConstructorsStageOnlyMatchers /\ OperationsChangeOwnField)
    /\ [][BuildKeepsStagedFields]_vars

\* A Macro was built whose preconditions, matchers and actions each hold two
\* different elements, with a name and a scope.
C17_Witness ==
    /\ built # None
    /\ builder = None
    /\ built.val.required_preconditions = Some(<<"p2", "p1">>)
    /\ built.val.match_events = <<EM_b, EM_a>>
    /\ Len(built.val.actions) = 2
    /\ built.val.actions[1] # built.val.actions[2]
    /\ built.val.name = Some("two")
    /\ built.val.scope # None

----------------------------------------------------------------------------
(* C18: a Macro with no event matcher never fires: evaluate returns no match *)
(* for every event and every state, also when the scope matches and every    *)
(* precondition holds.                                                       *)
C18_NoMatcherNeverFires ==
    /\ (lastEval # NoEval /\ lastEval.macro.match_events = <<>>) =>
           lastEval.result = None
    /\ \A i \in 1..Len(log) :
           (log[i].op = "evaluate" /\ Macros[log[i].macro].match_events = <<>>) =>
               ~log[i].matched

\* The macro without matchers was evaluated for a control change under a
\* matching scope with its precondition holding, and did not fire.
C18_Witness ==
    /\ lastEval # NoEval
    /\ lastEval.macro.match_events = <<>>
    /\ lastEval.macro.scope # None
    /\ matches_scope(lastEval.state, lastEval.macro.scope)
    /\ lastEval.macro.required_preconditions # None
    /\ Len(lastEval.macro.required_preconditions.val) > 0
    /\ PreconditionsHold(lastEval.macro, lastEval.state)
    /\ lastEval.event.msg.kind = "ControlChange"
    /\ lastEval.result = None

----------------------------------------------------------------------------
(* C19: the loop does not exit by itself on a stop event: after              *)
(* stop_listening it keeps receiving, and it ends only when rx is closed and *)
(* drained, every message sent having been evaluated in arrival order by     *)
(* then. Given that stop_listening makes the producer side close in the end, *)
(* every received stop event leads to the loop exiting.                      *)
StopReceived == \E k \in 1..Len(received) : IsStopEvent(received[k])

Exited == pc = "exited"

\* A spawned command has not exited yet: run_shell is waiting for it.
CommandRunning == stack # <<>> /\ Top.kind = "run_shell" /\ Top.spawned

ExitOnlyWhenClosedAndDrained ==
    Exited =>
        /\ bus = "closed"
        /\ rx = <<>>
        /\ received = sent
        /\ \A k \in 1..Len(sent) :
               /\ Winner(k) = 0 =>
                      Cardinality(Positions(k, {"evaluate"})) = Len(Macros)
               /\ Trace(k) = ExpandList(Selected(k), <<>>, 1)
        /\ \A i \in 1..(Len(log) - 1) : log[i].ev <= log[i + 1].ev

KeepsReceivingAfterStop ==
    /\ (log' # log /\ Last(log').op = "stop_listening") => pc' = "recv"
    /\ (pc' = "exited" /\ pc # "exited") =>
           (pc = "recv" /\ rx = <<>> /\ bus = "closed")

C19_LoopSafety ==
    /\ []ExitOnlyWhenClosedAndDrained
    /\ [][KeepsReceivingAfterStop]_vars

\* The claim as stated: a received stop event leads to the exit of the loop.
C19_StopLeadsToExit ==
    /\ C19_LoopSafety
    /\ StopReceived ~> Exited

\* The claim with what it leaves out: a received stop event leads to the exit
\* of the loop unless a spawned command never exits, run_shell waiting for it
\* for ever.
C19_StopLeadsToExitIfCommandsExit ==
    /\ C19_LoopSafety
    /\ (StopReceived ~> Exited) \/ <>[]CommandRunning

\* The loop has exited after a stop event, the message sent after the stop
\* event having still run the keyboard actions of its macro.
C19_Witness ==
    /\ Exited
    /\ \E i \in 1..Len(log), j \in 1..Len(log) :
           /\ i < j
           /\ log[i].op = "stop_listening"
           /\ log[j].op \in KeyboardOps
           /\ log[j].ev > log[i].ev

----------------------------------------------------------------------------
(* C20: stop_listening is invoked from inside the event loop only, at the    *)
(* end of the turn of an event that matches the stop matcher; when           *)
(* start_listening has succeeded and the action runner or the configuration  *)
(* then fails, task_listen returns without ever invoking stop_listening on   *)
(* the started listener.                                                     *)
ListenerStarted ==
    \E i \in 1..Len(startup) : startup[i] = <<"start_listening", "ok">>

FailedAfterListening ==
    /\ ListenerStarted
    /\ startup # <<>>
    /\ Last(startup) \in { <<"action_runner", "failed">>,
                           <<"get_config", "parse_failed">>,
                           <<"get_config", "process_failed">> }

StopInvoked == \E i \in 1..Len(log) : log[i].op = "stop_listening"

C20_StopOnlyInsideLoop ==
    /\ \A i \in 1..Len(log) :
           log[i].op = "stop_listening" =>
               /\ StartupSucceeded
               /\ log[i].ev \in 1..Len(received)
               /\ IsStopEvent(received[log[i].ev])
               /\ \A j \in 1..(i - 1) : log[j].ev <= log[i].ev
               /\ (log[i].ev = ev) => pc \in {"recv", "exited"}
    /\ pc \notin LoopPcs => ~StopInvoked
    /\ FailedAfterListening =>
           /\ pc = "returned"
           /\ ~StopInvoked

\* The listener was started and has sent a message, the action runner could
\* not be had, and task_listen has returned without stop_listening.
C20_Witness ==
    /\ pc = "returned"
    /\ ListenerStarted
    /\ Last(startup) = <<"action_runner", "failed">>
    /\ sent # <<>>
    /\ ~StopInvoked

====
